---- MODULE Spec2Model ----
(***************************************************************************)
(* Model of brain_tumor_segmentation/modules/train/training.py:            *)
(* BrainSegmentation3DModel, its step functions, dataloader factories,     *)
(* optimizer/scheduler configuration and the Dice metric.                  *)
(*                                                                         *)
(* Tensors are nested functions.  A prediction (logits) of shape           *)
(* (batch, classes, voxels) is [1..B -> [0..C-1 -> [1..V -> logit]]]; the   *)
(* spatial dimensions D x H x W are flattened to one voxel axis, which is  *)
(* what the reductions over dims 2.. do.  A label volume of shape          *)
(* (batch, 1, voxels) is [1..B -> [1..V -> label]].                        *)
(*                                                                         *)
(* Probabilities are fixed-point numbers in units of 1/Unit.  Ratios are   *)
(* exact fractions <<numerator, denominator>> in lowest terms; NaN is the  *)
(* float not-a-number.                                                     *)
(***************************************************************************)
EXTENDS Integers, Sequences, FiniteSets, TLC

\* ---------------------------------------------------------------- bounds
MaxBatch == 2
MaxChannels == 4
MaxVoxels == 2
MaxCells == 8

\* ------------------------------------------------------- numeric helpers
\* Fixed-point scale of a probability: the value 1.0.
Unit == 2

\* The float not-a-number, written as the ratio 0/0.
NaN == <<0, 0>>

\* Outcome of a call: a returned value, or a raised exception.
Returned(v) == [status |-> "returned", value |-> v, error |-> "none"]
Raised(e) == [status |-> "raised", value |-> NaN, error |-> e]
NotCalled == [status |-> "none", value |-> NaN, error |-> "none"]
\* torch scatter_ with an index outside the dimension.
RuntimeError == "RuntimeError"

RECURSIVE GCD(_, _)
GCD(a, b) == IF b = 0 THEN a ELSE GCD(b, a % b)

Reduce(n, d, g) == <<n \div g, d \div g>>
Frac(n, d) == Reduce(n, d, GCD(n, d))

FracAdd(x, y) == Frac(x[1] * y[2] + y[1] * x[2], x[2] * y[2])

RECURSIVE SumOver(_, _)
\* Sum of the integers f[i] for i in S.
SumOver(f, S) ==
    IF S = {} THEN 0
    ELSE LET i == CHOOSE j \in S : TRUE IN f[i] + SumOver(f, S \ {i})

\* ---------------------------------------------------------- tensor shape
Channels(t) == DOMAIN t[1]
NumChannels(t) == Cardinality(Channels(t))
Voxels(t) == DOMAIN t[1][CHOOSE c \in Channels(t) : TRUE]

\* -------------------------------------------------------- _calculate_dice
\* torch.sigmoid on float32 logits.  The logits of the model are the three
\* values of Logits: sigmoid(0) is 0.5, and float32 sigmoid saturates to
\* exactly 0.0 and 1.0 on the large negative and large positive logit.
Logits == {-200, 0, 200}

Sigmoid(x) == IF x = 0 THEN Unit \div 2 ELSE IF x < 0 THEN 0 ELSE Unit

SigmoidT(t) ==
    [b \in DOMAIN t |-> [c \in DOMAIN t[b] |-> [v \in DOMAIN t[b][c] |-> Sigmoid(t[b][c][v])]]]

\* monai.networks.one_hot: scatter 1 into channel target[b][v] of a zero
\* tensor with num_classes channels; an index outside the channels raises.
one_hot_raises(target, num_classes) ==
    \E b \in DOMAIN target : \E v \in DOMAIN target[b] :
        target[b][v] < 0 \/ target[b][v] >= num_classes

one_hot(target, num_classes) ==
    [b \in DOMAIN target |-> [c \in 0 .. num_classes - 1 |->
        [v \in DOMAIN target[b] |-> IF target[b][v] = c THEN 1 ELSE 0]]]

\* Mutant: the background channel is kept.
ignore_background_keeps(t) == t

\* monai.metrics.utils.ignore_background: drop channel 0 unless it is the
\* only channel.
ignore_background(t) ==
    IF NumChannels(t) > 1
    THEN [b \in DOMAIN t |-> [c \in Channels(t) \ {0} |-> t[b][c]]]
    ELSE t

\* Mutant: the factor 2 of the Dice ratio is missing.
DiceEntry_no_factor(p, y) ==
    LET intersection == SumOver([v \in DOMAIN p |-> y[v] * p[v]], DOMAIN p)
        y_o == Unit * SumOver(y, DOMAIN y)
        y_pred_o == SumOver(p, DOMAIN p)
    IN  IF y_o > 0 THEN Frac(intersection, y_o + y_pred_o) ELSE NaN

\* Mutant: the denominator leaves out the prediction's volume.
DiceEntry_ground_only(p, y) ==
    LET intersection == SumOver([v \in DOMAIN p |-> y[v] * p[v]], DOMAIN p)
        y_o == Unit * SumOver(y, DOMAIN y)
    IN  IF y_o > 0 THEN Frac(2 * intersection, y_o) ELSE NaN

\* One (sample, class) entry of compute_meandice: 2 * intersection /
\* (y_o + y_pred_o), and not-a-number where the class has no ground truth.
DiceEntry(p, y) ==
    LET intersection == SumOver([v \in DOMAIN p |-> y[v] * p[v]], DOMAIN p)
        y_o == Unit * SumOver(y, DOMAIN y)
        y_pred_o == SumOver(p, DOMAIN p)
    IN  IF y_o > 0 THEN Frac(2 * intersection, y_o + y_pred_o) ELSE NaN

\* monai.metrics.meandice.compute_meandice: a [batch, class] table.
DiceTable(y_pred, y) ==
    [b \in DOMAIN y_pred |-> [c \in DOMAIN y_pred[b] |-> DiceEntry(y_pred[b][c], y[b][c])]]

compute_meandice(y_pred, y, include_background) ==
    IF include_background THEN DiceTable(y_pred, y)
    ELSE DiceTable(ignore_background(y_pred), ignore_background(y))

\* Mutant: not-a-number entries become 1.
nan_to_num_one(d) ==
    [b \in DOMAIN d |-> [c \in DOMAIN d[b] |-> IF d[b][c] = NaN THEN <<1, 1>> ELSE d[b][c]]]

\* Mutant: the substitution is missing.
nan_to_num_missing(d) == d

\* torch.nan_to_num on the table.
nan_to_num(d) ==
    [b \in DOMAIN d |-> [c \in DOMAIN d[b] |-> IF d[b][c] = NaN THEN <<0, 1>> ELSE d[b][c]]]

Entries(d) == {<<b, c>> : b \in DOMAIN d, c \in DOMAIN d[1]}

RECURSIVE FracSum(_, _)
FracSum(d, E) ==
    IF E = {} THEN <<0, 1>>
    ELSE LET e == CHOOSE x \in E : TRUE
         IN FracAdd(d[e[1]][e[2]], FracSum(d, E \ {e}))

\* torch.mean over all entries: not-a-number if any entry is, else sum / count.
FracOver(s, n) == Frac(s[1], s[2] * n)

mean(d) ==
    IF Entries(d) = {} \/ \E e \in Entries(d) : d[e[1]][e[2]] = NaN
    THEN NaN
    ELSE FracOver(FracSum(d, Entries(d)), Cardinality(Entries(d)))

_calculate_dice(preds, target) ==
    IF one_hot_raises(target, NumChannels(preds)) THEN Raised(RuntimeError)
    ELSE Returned(mean(nan_to_num(
             compute_meandice(SigmoidT(preds), one_hot(target, NumChannels(preds)), FALSE))))

\* ----------------------------------------------------------- label values
\* get_load_transforms(orig_labels=[1, 2, 4], target_labels=[1, 2, 3]).
orig_labels == <<1, 2, 4>>

\* Mutant: the target labels repeat the original labels.
target_labels_unmapped == <<1, 2, 4>>

target_labels == <<1, 2, 3>>

\* Values of a label volume on disk: background and the original labels.
RawLabels == {0} \cup {orig_labels[i] : i \in DOMAIN orig_labels}

\* Values of a loaded mask: background and the target labels.
Labels == {0} \cup {target_labels[i] : i \in DOMAIN target_labels}

\* Logit tensors of shape s = <<batch, channels, voxels>>.
PredsOf(s) == [1 .. s[1] -> [0 .. s[2] - 1 -> [1 .. s[3] -> Logits]]]

\* ------------------------------------------------------------- __init__
\* The label mapping of the load transform on one value: the value at the
\* position of x in orig_labels, from target_labels; other values are kept.
MapLabel(t, x) ==
    IF \E i \in DOMAIN t.orig_labels : t.orig_labels[i] = x
    THEN t.target_labels[CHOOSE i \in DOMAIN t.orig_labels : t.orig_labels[i] = x]
    ELSE x

\* The load transform on a label volume.
LoadMask(t, raw) == [b \in DOMAIN raw |-> [v \in DOMAIN raw[b] |-> MapLabel(t, raw[b][v])]]

\* DiceLoss(to_onehot_y=True, sigmoid=True, jaccard=True,
\* include_background=True); smooth_nr = smooth_dr = 1e-5.
smooth_inverse == 100000

\* One (sample, class) term of the loss:
\* 1 - (2 * intersection + smooth_nr) / (2 * (ground_o + pred_o - intersection) + smooth_dr).
OneMinus(num, den) == Frac(den - num, den)

LossTerm(p, y) ==
    LET intersection == SumOver([v \in DOMAIN p |-> y[v] * p[v]], DOMAIN p)
        ground_o == Unit * SumOver(y, DOMAIN y)
        pred_o == SumOver(p, DOMAIN p)
    IN  OneMinus(2 * smooth_inverse * intersection + Unit,
                 2 * smooth_inverse * (ground_o + pred_o - intersection) + Unit)

LossTable(input, target) ==
    [b \in DOMAIN input |-> [c \in DOMAIN input[b] |-> LossTerm(input[b][c], target[b][c])]]

\* DiceLoss.forward: the mean (reduction='mean') of the terms, kept as the
\* table of its terms.  With one prediction channel to_onehot_y is ignored
\* and the label values themselves are the target.
DiceLoss(input, target) ==
    IF NumChannels(input) = 1
    THEN Returned([reduction |-> "mean",
                   terms |-> LossTable(SigmoidT(input),
                                       [b \in DOMAIN target |-> [c \in {0} |-> target[b]]])])
    ELSE IF one_hot_raises(target, NumChannels(input))
    THEN Raised(RuntimeError)
    ELSE Returned([reduction |-> "mean",
                   terms |-> LossTable(SigmoidT(input),
                                       one_hot(target, NumChannels(input)))])

\* ----------------------------------------------------------------- steps
LogCall(name, value) == [name |-> name, value |-> value]

\* The self.log call of _log_metrics with the outcome of _calculate_dice,
\* when that returned.
LogDice(dice, prefix) ==
    IF dice.status = "returned" THEN <<LogCall(prefix \o "_dice", dice.value)>> ELSE << >>

\* _log_metrics: the outcome of _calculate_dice and the self.log call made.
_log_metrics(preds, target, prefix) ==
    [outcome |-> _calculate_dice(preds, target),
     logs |-> LogDice(_calculate_dice(preds, target), prefix)]

\* The outcome of a step: the self.log calls made, and the returned record
\* or the exception raised.
StepRaised(logs, e) ==
    [logs |-> logs, status |-> "raised", error |-> e, record |-> "none"]
StepReturned(logs, r) ==
    [logs |-> logs, status |-> "returned", error |-> "none", record |-> r]

\* The statements of a step after the loss and the metric have been
\* computed: an exception of the loss ends the step before any log call, one
\* of the metric ends it after the loss was logged.
StepOutcome(loss, loss_log, metrics, result, label) ==
    IF loss.status = "raised" THEN StepRaised(<< >>, loss.error)
    ELSE IF metrics.outcome.status = "raised"
    THEN StepRaised(loss_log, metrics.outcome.error)
    ELSE StepReturned(loss_log \o metrics.logs,
                      [loss |-> loss.value, pred |-> result, label |-> label])

\* Mutant: the metric is computed on the label in place of the prediction.
validation_step_slip(self, batch, result) ==
    StepOutcome(DiceLoss(result, batch[self.lbl_key]),
                <<LogCall("val_loss", DiceLoss(result, batch[self.lbl_key]).value)>>,
                _log_metrics(one_hot(batch[self.lbl_key], NumChannels(result)),
                             batch[self.lbl_key], "val"),
                result, batch[self.lbl_key])

\* training_step; result is the network's output self.model(batch[img_key]).
training_step(self, batch, result) ==
    StepOutcome(DiceLoss(result, batch[self.lbl_key]),
                <<LogCall("train_loss", DiceLoss(result, batch[self.lbl_key]).value)>>,
                _log_metrics(result, batch[self.lbl_key], "train"),
                result, batch[self.lbl_key])

\* validation_step; result is the network's output self.model(batch[img_key]).
validation_step(self, batch, result) ==
    StepOutcome(DiceLoss(result, batch[self.lbl_key]),
                <<LogCall("val_loss", DiceLoss(result, batch[self.lbl_key]).value)>>,
                _log_metrics(result, batch[self.lbl_key], "val"),
                result, batch[self.lbl_key])

\* ----------------------------------------------------------- dataloaders
\* Mutant: the training loader is built over the validation paths.
train_dataloader_val_paths(self) ==
    [dataset |-> [image_mask_paths |-> self.val_paths,
                  load_transforms |-> self.load_transform],
     batch_size |-> self.batch_size, shuffle |-> TRUE, num_workers |-> self.num_processes]

\* train_dataloader: a BrainSegDataset over train_paths in a shuffling loader.
train_dataloader(self) ==
    [dataset |-> [image_mask_paths |-> self.train_paths,
                  load_transforms |-> self.load_transform],
     batch_size |-> self.batch_size, shuffle |-> TRUE, num_workers |-> self.num_processes]

\* val_dataloader: a BrainSegDataset over val_paths in a loader that keeps
\* the order.
val_dataloader(self) ==
    [dataset |-> [image_mask_paths |-> self.val_paths,
                  load_transforms |-> self.load_transform],
     batch_size |-> self.batch_size, shuffle |-> FALSE, num_workers |-> self.num_processes]

\* ------------------------------------------------- configure_optimizers
\* Learning rates are fixed-point numbers: LrEps units are 1e-8, so that 16
\* halvings of the default 0.001 are exact.
LrEps == 2048

\* The constructor's default learning_rate 0.001, and two small rates, 4e-8
\* and 2e-8, at which the scheduler's eps decides.
LearningRates == {100000 * LrEps, 4 * LrEps, 2 * LrEps}

\* ReduceLROnPlateau(factor=0.5, patience=5, mode='min', threshold=0.001),
\* with the defaults threshold_mode='rel', cooldown=0, min_lr=0, eps=1e-8.
factor_inverse == 2
patience == 5
threshold_inverse == 1000

\* Losses per epoch, in units of 1e-4.
LossValues == {10000, 9995, 9985, 5000, 4992, 0}

\* ReduceLROnPlateau.is_better, mode 'min', threshold_mode 'rel':
\* a < best * (1 - threshold).
is_better(a, best) ==
    IF best.inf THEN TRUE
    ELSE threshold_inverse * a < (threshold_inverse - 1) * best.v

\* Mutant: the reduction fires as soon as patience is reached.
ReduceDue_at_patience(num_bad_epochs) == num_bad_epochs >= patience

\* ReduceLROnPlateau.step: the test num_bad_epochs > patience.
ReduceDue(num_bad_epochs) == num_bad_epochs > patience

\* The scheduler as constructed: best = inf (mode 'min'), no bad epochs.
BestInf == [inf |-> TRUE, v |-> 0]
NewScheduler == [best |-> BestInf, num_bad_epochs |-> 0]

\* configure_optimizers: Adam on lr = self.learning_rate, the plateau
\* scheduler on that optimizer, and the key it monitors.
configure_optimizers(self) ==
    [optimizer |-> [name |-> "Adam", lr |-> self.learning_rate],
     lr_scheduler |-> [scheduler |-> NewScheduler, monitor |-> "val_loss"]]

\* ReduceLROnPlateau._reduce_lr: new_lr = max(old_lr * factor, min_lr),
\* applied only if old_lr - new_lr > eps.
reduce_lr(old_lr) ==
    LET new_lr == old_lr \div factor_inverse
    IN  IF old_lr - new_lr > LrEps THEN new_lr ELSE old_lr


\* ================================================================ state
\* The object's attributes.
VARIABLES img_key, lbl_key, train_paths, val_paths, load_transform,
          batch_size, num_processes, learning_rate, out_channels

\* The last call of a method of the object: its name, the raw label volume
\* its batch was loaded from, the batch, the network's output on the batch,
\* the self.log calls it made, and what it returned or raised.
VARIABLES last_call, loaded_from, call_batch, call_result, log_calls, returned

\* A call of the static method _calculate_dice.
VARIABLES d_pc, d_preds, d_target, dice_value

\* The training engine: its position in the epoch, the optimizer's learning
\* rate, the scheduler's state, the monitored key and the epoch's logged
\* metrics.  h_stale is a history variable: the number of consecutive epochs
\* whose monitored loss was not better than the scheduler's best.
VARIABLES o_pc, monitor, optimizer_lr, scheduler, callback_metrics, h_stale

fields == <<img_key, lbl_key, train_paths, val_paths, load_transform,
            batch_size, num_processes, learning_rate, out_channels>>
call_vars == <<last_call, loaded_from, call_batch, call_result, log_calls, returned>>
dice_vars == <<d_pc, d_preds, d_target, dice_value>>
engine_vars == <<o_pc, monitor, optimizer_lr, scheduler, callback_metrics, h_stale>>
vars == <<fields, call_vars, dice_vars, engine_vars>>

Self ==
    [img_key |-> img_key, lbl_key |-> lbl_key, train_paths |-> train_paths,
     val_paths |-> val_paths, load_transform |-> load_transform,
     batch_size |-> batch_size, num_processes |-> num_processes,
     learning_rate |-> learning_rate, out_channels |-> out_channels]

\* ------------------------------------------------------------- __init__
\* The image/mask path pairs found under dataset_folder.
DatasetItems == <<"case_1", "case_2", "case_3">>

\* get_train_val_paths: the items split in a training and a validation part.
PathSplits ==
    {<<SubSeq(DatasetItems, 1, k), SubSeq(DatasetItems, k + 1, Len(DatasetItems))>> :
        k \in 1 .. Len(DatasetItems) - 1}

\* Constructor arguments batch_size, num_processes, learning_rate: the
\* defaults (2, 1, 0.001) and another choice of each.
ConstructorArgs ==
    {[batch_size |-> 2, num_processes |-> 1, learning_rate |-> 100000 * LrEps],
     [batch_size |-> 1, num_processes |-> 2, learning_rate |-> 4 * LrEps]}

\* Constructor argument out_channels: the default, 2, and one channel per
\* label value.
default_out_channels == 1
OutChannels == {default_out_channels, 2, Cardinality(Labels)}

\* __init__ with the given arguments.
Construct(split, bs, np, lr, oc) ==
    /\ img_key = "image"
    /\ lbl_key = "mask"
    /\ train_paths = split[1]
    /\ val_paths = split[2]
    /\ load_transform = [img_key |-> "image", lbl_key |-> "mask",
                         orig_labels |-> orig_labels, target_labels |-> target_labels]
    /\ batch_size = bs
    /\ num_processes = np
    /\ learning_rate = lr
    /\ out_channels = oc

NoCall ==
    /\ last_call = "none"
    /\ loaded_from = << >>
    /\ call_batch = [image |-> "none", mask |-> << >>]
    /\ call_result = << >>
    /\ log_calls = << >>
    /\ returned = [status |-> "none", error |-> "none", record |-> "none"]

DiceIdle ==
    /\ d_pc = "idle"
    /\ d_preds = << >>
    /\ d_target = << >>
    /\ dice_value = NotCalled

EngineIdle ==
    /\ o_pc = "idle"
    /\ monitor = "none"
    /\ optimizer_lr = 0
    /\ scheduler = NewScheduler
    /\ callback_metrics = [k \in {} |-> 0]
    /\ h_stale = 0

\* ================================================== the object's methods
\* Batches of one sample of one voxel; the network's output on them has
\* out_channels channels of saturated logits.
StepShapes == {<<1, out_channels, 1>>}

RawVolumesOf(s) == [1 .. s[1] -> [1 .. s[3] -> RawLabels]]

StepPredsOf(s) == [1 .. s[1] -> [0 .. s[2] - 1 -> [1 .. s[3] -> Logits \ {0}]]]

Init ==
    /\ \E split \in PathSplits, a \in ConstructorArgs, oc \in OutChannels :
          Construct(split, a.batch_size, a.num_processes, a.learning_rate, oc)
    /\ NoCall
    /\ DiceIdle
    /\ EngineIdle

\* The state after a call of a step on a batch.
StepCalled(name, raw, batch, result, out) ==
    /\ last_call' = name
    /\ loaded_from' = raw
    /\ call_batch' = batch
    /\ call_result' = result
    /\ log_calls' = out.logs
    /\ returned' = [status |-> out.status, error |-> out.error, record |-> out.record]

Batch(raw) == [image |-> "volume", mask |-> LoadMask(load_transform, raw)]

\* The engine takes a batch from a loader (the load transform applied to a
\* raw label volume) and calls training_step on it.
TrainingStep ==
    /\ \E s \in StepShapes : \E raw \in RawVolumesOf(s) : \E result \in StepPredsOf(s) :
          StepCalled("training_step", raw, Batch(raw), result,
                     training_step(Self, Batch(raw), result))
    /\ UNCHANGED <<fields, dice_vars, engine_vars>>

\* The engine takes a batch from a loader and calls validation_step on it.
ValidationStep ==
    /\ \E s \in StepShapes : \E raw \in RawVolumesOf(s) : \E result \in StepPredsOf(s) :
          StepCalled("validation_step", raw, Batch(raw), result,
                     validation_step(Self, Batch(raw), result))
    /\ UNCHANGED <<fields, dice_vars, engine_vars>>

\* The state after a call of a method that takes no batch.
Called(name, value) ==
    /\ last_call' = name
    /\ loaded_from' = << >>
    /\ call_batch' = [image |-> "none", mask |-> << >>]
    /\ call_result' = << >>
    /\ log_calls' = << >>
    /\ returned' = [status |-> "returned", error |-> "none", record |-> value]

TrainDataloader ==
    /\ Called("train_dataloader", train_dataloader(Self))
    /\ UNCHANGED <<fields, dice_vars, engine_vars>>

ValDataloader ==
    /\ Called("val_dataloader", val_dataloader(Self))
    /\ UNCHANGED <<fields, dice_vars, engine_vars>>

ConfigureOptimizers ==
    /\ Called("configure_optimizers", configure_optimizers(Self))
    /\ UNCHANGED <<fields, dice_vars, engine_vars>>

Next ==
    \/ TrainingStep
    \/ ValidationStep
    \/ TrainDataloader
    \/ ValDataloader
    \/ ConfigureOptimizers

Spec == Init /\ [][Next]_vars

\* ================================================ calls of _calculate_dice
Shapes ==
    {s \in (1 .. MaxBatch) \X (1 .. MaxChannels) \X (1 .. MaxVoxels) :
        s[1] * s[3] * (s[2] + 1) <= MaxCells}

TargetsOf(s) == [1 .. s[1] -> [1 .. s[3] -> Labels]]

\* The object with the constructor's default arguments.
DefaultObject ==
    Construct(CHOOSE split \in PathSplits : TRUE, 2, 1, 100000 * LrEps, default_out_channels)

DiceInit ==
    /\ DefaultObject
    /\ NoCall
    /\ EngineIdle
    /\ d_pc = "input"
    /\ \E s \in Shapes : d_preds \in PredsOf(s) /\ d_target \in TargetsOf(s)
    /\ dice_value = NotCalled

\* A call of _calculate_dice on the inputs.
CalculateDice ==
    /\ d_pc = "input"
    /\ dice_value' = _calculate_dice(d_preds, d_target)
    /\ d_pc' = "done"
    /\ UNCHANGED <<d_preds, d_target>>
    /\ UNCHANGED <<fields, call_vars, engine_vars>>

\* A further call on inputs that differ from the last ones in one logit of
\* channel 0 only.
CalculateDiceOtherBackground ==
    /\ d_pc \in {"done", "redone"}
    /\ \E b \in DOMAIN d_preds : \E v \in Voxels(d_preds) : \E x \in Logits :
          /\ x # d_preds[b][0][v]
          /\ d_preds' = [d_preds EXCEPT ![b][0][v] = x]
    /\ dice_value' = _calculate_dice(d_preds', d_target)
    /\ d_pc' = "redone"
    /\ UNCHANGED d_target
    /\ UNCHANGED <<fields, call_vars, engine_vars>>

DiceNext == CalculateDice \/ CalculateDiceOtherBackground

SpecDice == DiceInit /\ [][DiceNext]_vars

\* ==================================================== the training engine
MaxStale == 13

SchedInit ==
    /\ \E lr \in LearningRates :
          Construct(CHOOSE split \in PathSplits : TRUE, 2, 1, lr, default_out_channels)
    /\ NoCall
    /\ DiceIdle
    /\ o_pc = "constructed"
    /\ monitor = "none"
    /\ optimizer_lr = 0
    /\ scheduler = NewScheduler
    /\ callback_metrics = [k \in {} |-> 0]
    /\ h_stale = 0

\* The engine calls configure_optimizers and keeps the optimizer, the
\* scheduler and the monitored key of the record.
SetupOptimizers ==
    /\ o_pc = "constructed"
    /\ LET configuration == configure_optimizers(Self)
       IN  /\ optimizer_lr' = configuration.optimizer.lr
           /\ scheduler' = configuration.lr_scheduler.scheduler
           /\ monitor' = configuration.lr_scheduler.monitor
    /\ o_pc' = "train"
    /\ UNCHANGED <<callback_metrics, h_stale>>
    /\ UNCHANGED <<fields, call_vars, dice_vars>>

\* The name under which a step logs its loss.
LossKey(step_name) ==
    IF step_name = "training_step" THEN "train_loss" ELSE "val_loss"

\* The metrics after an epoch of steps logged value under key (on_epoch=True).
Logged(metrics, key, value) ==
    [k \in DOMAIN metrics \cup {key} |-> IF k = key THEN value ELSE metrics[k]]

\* The training steps of an epoch, whose losses average to loss.
TrainingEpoch ==
    /\ o_pc = "train"
    /\ \E loss \in LossValues :
          callback_metrics' = Logged(callback_metrics, LossKey("training_step"), loss)
    /\ o_pc' = "val"
    /\ UNCHANGED <<monitor, optimizer_lr, scheduler, h_stale>>
    /\ UNCHANGED <<fields, call_vars, dice_vars>>

\* The validation steps of an epoch, whose losses average to loss.
ValidationEpoch ==
    /\ o_pc = "val"
    /\ \E loss \in LossValues :
          callback_metrics' = Logged(callback_metrics, LossKey("validation_step"), loss)
    /\ o_pc' = "step"
    /\ UNCHANGED <<monitor, optimizer_lr, scheduler, h_stale>>
    /\ UNCHANGED <<fields, call_vars, dice_vars>>

\* End of the epoch: the engine calls scheduler.step(metrics[monitor]), which
\* is ReduceLROnPlateau.step.
SchedulerStep ==
    /\ o_pc = "step"
    /\ monitor \in DOMAIN callback_metrics
    /\ LET current == callback_metrics[monitor]
           better == is_better(current, scheduler.best)
           best == IF better THEN [inf |-> FALSE, v |-> current] ELSE scheduler.best
           bad == IF better THEN 0 ELSE scheduler.num_bad_epochs + 1
       IN  /\ better \/ h_stale < MaxStale
           /\ h_stale' = (IF better THEN 0 ELSE h_stale + 1)
           /\ IF ReduceDue(bad)
              THEN /\ optimizer_lr' = reduce_lr(optimizer_lr)
                   /\ scheduler' = [best |-> best, num_bad_epochs |-> 0]
              ELSE /\ optimizer_lr' = optimizer_lr
                   /\ scheduler' = [best |-> best, num_bad_epochs |-> bad]
    /\ o_pc' = "train"
    /\ UNCHANGED <<monitor, callback_metrics>>
    /\ UNCHANGED <<fields, call_vars, dice_vars>>

SchedNext == SetupOptimizers \/ TrainingEpoch \/ ValidationEpoch \/ SchedulerStep

SpecSched == SchedInit /\ [][SchedNext]_vars

\* ------------------------------------------- properties of _calculate_dice
DiceReturned == d_pc # "input" /\ dice_value.status = "returned"

FgClasses == Channels(d_preds) \ {0}
Prob(b, c, v) == Sigmoid(d_preds[b][c][v])
TargetHas(b, c) == \E v \in Voxels(d_preds) : d_target[b][v] = c
PredHas(b, c) == \E v \in Voxels(d_preds) : Prob(b, c, v) > 0
AbsentFromBoth(b, c) == ~TargetHas(b, c) /\ ~PredHas(b, c)

\* The overlap ratio 2|P.T| / (|P| + |T|) of class c in sample b, taken as 0
\* where the class is absent from prediction and ground truth.
OverlapRatio(b, c) ==
    LET V == Voxels(d_preds)
        inter == SumOver([v \in V |-> IF d_target[b][v] = c THEN Prob(b, c, v) ELSE 0], V)
        tvol == Unit * Cardinality({v \in V : d_target[b][v] = c})
        pvol == SumOver([v \in V |-> Prob(b, c, v)], V)
    IN  IF AbsentFromBoth(b, c) THEN <<0, 1>> ELSE Frac(2 * inter, tvol + pvol)

OverlapTable == [b \in DOMAIN d_preds |-> [c \in FgClasses |-> OverlapRatio(b, c)]]

SomeAbsentFromBoth == \E b \in DOMAIN d_preds : \E c \in FgClasses : AbsentFromBoth(b, c)

\* C2: when some foreground class of some sample is absent from both the
\* prediction and the ground truth, the returned value is the sum of the
\* overlap ratios of the other entries divided by the number of all
\* foreground entries (the absent entry counts 0, stays in the divisor),
\* and the returned value is not not-a-number.
C2_AbsentClassCountsZero ==
    (DiceReturned /\ SomeAbsentFromBoth) =>
        /\ dice_value.value # NaN
        /\ LET s == FracSum(OverlapTable, Entries(OverlapTable))
           IN dice_value.value = Frac(s[1], s[2] * Cardinality(Entries(OverlapTable)))

\* Witness of C2: two foreground entries, one absent from both, the other
\* predicted perfectly, so the value is 1/2.
C2_Witness ==
    /\ DiceReturned /\ SomeAbsentFromBoth
    /\ dice_value.value = <<1, 2>>
    /\ \E b \in DOMAIN d_preds : \E c \in FgClasses : OverlapRatio(b, c) = <<1, 1>>

AgreeOnForeground(p, q) ==
    /\ DOMAIN p = DOMAIN q
    /\ \A b \in DOMAIN p : \A c \in DOMAIN p[b] \ {0} : p[b][c] = q[b][c]

BackgroundOnlyChange ==
    /\ d_pc # "input" /\ d_pc' # "input"
    /\ d_target' = d_target
    /\ d_preds' # d_preds
    /\ AgreeOnForeground(d_preds, d_preds')

\* C3 as stated: for every channel count, two calls whose inputs differ
\* only in channel 0 of the prediction give the same outcome.
C3_BackgroundIrrelevantAnyChannels ==
    [][BackgroundOnlyChange => dice_value' = dice_value]_vars

\* With two or more channels, two calls whose inputs differ only in channel 0
\* of the prediction give the same outcome: the single-channel prediction is
\* the only case in which C3 fails.
BackgroundIrrelevantWithForeground ==
    [][(BackgroundOnlyChange /\ NumChannels(d_preds) >= 2) => dice_value' = dice_value]_vars

\* A second call on inputs with a changed background channel returned a
\* value, for a prediction with foreground channels.
BackgroundChangedWithForeground ==
    d_pc = "redone" /\ dice_value.status = "returned" /\ NumChannels(d_preds) >= 2

\* The sigmoid of the prediction is the one-hot encoding of the target.
PerfectPrediction ==
    \A b \in DOMAIN d_preds : \A c \in Channels(d_preds) : \A v \in Voxels(d_preds) :
        Prob(b, c, v) = (IF d_target[b][v] = c THEN Unit ELSE 0)

EveryClassInEverySample ==
    \A b \in DOMAIN d_preds : \A c \in FgClasses : TargetHas(b, c)

\* C4 as stated: a perfect prediction of any label volume gives 1.0.
C4_PerfectIsOneAnyVolume ==
    (DiceReturned /\ PerfectPrediction) => dice_value.value = <<1, 1>>

\* C4 amended: a perfect prediction of a label volume in which every
\* foreground class occurs in every sample gives 1.0.
C4_PerfectIsOne ==
    (DiceReturned /\ PerfectPrediction /\ EveryClassInEverySample) =>
        dice_value.value = <<1, 1>>

\* Witness of C4: a perfect prediction with two foreground classes, both
\* present in the sample.
C4_Witness ==
    /\ DiceReturned /\ PerfectPrediction /\ EveryClassInEverySample
    /\ Cardinality(FgClasses) >= 2

TargetHasForeground ==
    \E b \in DOMAIN d_target : \E v \in DOMAIN d_target[b] : d_target[b][v] > 0

\* The foreground of the prediction is all zero: as probabilities, or as the
\* logits passed in.
ForegroundProbsZero ==
    \A b \in DOMAIN d_preds : \A c \in FgClasses : \A v \in Voxels(d_preds) : Prob(b, c, v) = 0
ForegroundLogitsZero ==
    \A b \in DOMAIN d_preds : \A c \in FgClasses : \A v \in Voxels(d_preds) : d_preds[b][c][v] = 0

\* C5: for a target with a foreground voxel and a prediction whose
\* foreground is all zero, the returned value is a number strictly below 1.
C5_BackgroundOnlyBelowOne ==
    (DiceReturned /\ TargetHasForeground /\ (ForegroundProbsZero \/ ForegroundLogitsZero)) =>
        /\ dice_value.value # NaN
        /\ dice_value.value[1] < dice_value.value[2]

\* Witness of C5: such a call, with a foreground class that the target lacks.
C5_Witness ==
    /\ DiceReturned /\ TargetHasForeground /\ ForegroundProbsZero
    /\ \E b \in DOMAIN d_preds : \E c \in FgClasses : ~TargetHas(b, c)

\* C10: every returned value is a number in the closed interval [0, 1].
C10_DiceInUnitInterval ==
    DiceReturned =>
        /\ dice_value.value # NaN
        /\ 0 <= dice_value.value[1]
        /\ dice_value.value[1] <= dice_value.value[2]

\* Witness of C10: a returned value strictly between 0 and 1.
C10_Witness ==
    /\ DiceReturned
    /\ dice_value.value # NaN
    /\ 0 < dice_value.value[1] /\ dice_value.value[1] < dice_value.value[2]

\* ---------------------------------------------- properties of the scheduler
SchedulerStepped == o_pc = "step" /\ o_pc' = "train"

\* The epoch's validation loss improved on the scheduler's best by more than
\* the threshold, taken relative to the best.
ValLossImproved ==
    \/ scheduler.best.inf
    \/ threshold_inverse * callback_metrics["val_loss"]
           < (threshold_inverse - 1) * scheduler.best.v

StaleCounted == h_stale' = (IF ValLossImproved THEN 0 ELSE h_stale + 1)

\* C1 as stated: the learning rate is halved at the scheduler step that
\* closes 5 consecutive epochs without improvement of the validation loss,
\* and is unchanged at every other step.
C1_HalvedAfterFiveStaleEpochs ==
    [][SchedulerStepped =>
          /\ StaleCounted
          /\ IF h_stale' > 0 /\ h_stale' % patience = 0
             THEN 2 * optimizer_lr' = optimizer_lr
             ELSE optimizer_lr' = optimizer_lr]_vars

\* C1 amended: the learning rate is halved at the scheduler step that closes
\* 6 consecutive epochs (one more than the patience) without improvement of
\* the validation loss, counted from the last improvement or the last
\* reduction, provided the halving changes it by more than eps; it is
\* unchanged at every other step.
C1_HalvedAfterPatienceExceeded ==
    [][SchedulerStepped =>
          /\ StaleCounted
          /\ IF /\ h_stale' > 0 /\ h_stale' % (patience + 1) = 0
                /\ 2 * LrEps < optimizer_lr
             THEN 2 * optimizer_lr' = optimizer_lr
             ELSE optimizer_lr' = optimizer_lr]_vars

\* Witness of C1: the step closing the sixth stale epoch has halved the
\* constructor's learning rate.
C1_Witness ==
    /\ o_pc = "train" /\ h_stale = patience + 1
    /\ 2 * optimizer_lr = learning_rate

\* ------------------------------------------------ properties of the object
StepWasCalled == last_call \in {"training_step", "validation_step"}

Positions(t) == {<<b, v>> : b \in DOMAIN t, v \in DOMAIN t[1]}

\* C6: for a raw label volume with values in {1, 2, 4}, the mask of the batch
\* has values in {1, 2, 3}, 4 has become 3, and 1 and 2 are kept.
C6_LabelsRemapped ==
    (StepWasCalled /\ \A x \in Positions(loaded_from) : loaded_from[x[1]][x[2]] \in {1, 2, 4}) =>
        \A x \in Positions(loaded_from) :
            LET r == loaded_from[x[1]][x[2]]
                m == call_batch.mask[x[1]][x[2]]
            IN  /\ m \in {1, 2, 3}
                /\ r = 4 => m = 3
                /\ r \in {1, 2} => m = r

\* Witness of C6: a batch loaded from a volume holding the label 4.
C6_Witness ==
    /\ StepWasCalled
    /\ \E x \in Positions(loaded_from) :
          loaded_from[x[1]][x[2]] = 4 /\ call_batch.mask[x[1]][x[2]] = 3

LogNames(logs) == [i \in DOMAIN logs |-> logs[i].name]
LogValues(logs) == [i \in DOMAIN logs |-> logs[i].value]

\* The state left by this step is the outcome other of the other step, up to
\* the logged names.
AgreesWith(other, own_names, other_names) ==
    /\ returned.status = other.status
    /\ returned.error = other.error
    /\ returned.status = "returned" =>
          /\ returned.record = other.record
          /\ returned.record.pred = call_result
          /\ returned.record.label = call_batch[lbl_key]
          /\ Len(log_calls) = 2
          /\ log_calls[1].value = returned.record.loss
    /\ Len(log_calls) = Len(other.logs)
    /\ LogValues(log_calls) = LogValues(other.logs)
    /\ LogNames(log_calls) = SubSeq(own_names, 1, Len(log_calls))
    /\ LogNames(other.logs) = SubSeq(other_names, 1, Len(log_calls))

\* C7: a step leaves what the other step leaves on the same batch and
\* network output (the outcome, the returned record {loss, pred, label}, the
\* logged values in the same order), and the logged names are
\* train_loss, train_dice for one and val_loss, val_dice for the other.
C7_StepsDifferInPrefixOnly ==
    /\ last_call = "training_step" =>
          AgreesWith(validation_step(Self, call_batch, call_result),
                     <<"train_loss", "train_dice">>, <<"val_loss", "val_dice">>)
    /\ last_call = "validation_step" =>
          AgreesWith(training_step(Self, call_batch, call_result),
                     <<"val_loss", "val_dice">>, <<"train_loss", "train_dice">>)

\* Witness of C7: a validation step that returned after logging both values,
\* with a Dice value of 1.
C7_Witness ==
    /\ last_call = "validation_step" /\ returned.status = "returned"
    /\ Len(log_calls) = 2 /\ log_calls[2].value = <<1, 1>>

LoaderOver(paths, shuffle) ==
    [dataset |-> [image_mask_paths |-> paths, load_transforms |-> load_transform],
     batch_size |-> batch_size, shuffle |-> shuffle, num_workers |-> num_processes]

\* C8: no call changes an attribute of the object, and every call of
\* train_dataloader (val_dataloader) returns a loader of a dataset over the
\* stored train_paths (val_paths) with the stored load transform, batch size
\* and worker count, shuffling (not shuffling).
C8_ConfigurationKept ==
    [][/\ fields' = fields
       /\ last_call' = "train_dataloader" => returned'.record = LoaderOver(train_paths, TRUE)
       /\ last_call' = "val_dataloader" => returned'.record = LoaderOver(val_paths, FALSE)]_vars

\* Witness of C8: train_dataloader called after another call, returning a
\* loader over the training part of the split.
C8_Witness ==
    /\ last_call = "train_dataloader"
    /\ returned.record.dataset.image_mask_paths = train_paths
    /\ train_paths # val_paths

\* C9: in every step of an object with the default out_channels, every value
\* of the batch's mask is below the channel count of the prediction, and the
\* step returns.
C9_LabelsAreClassIndices ==
    (StepWasCalled /\ out_channels = default_out_channels) =>
        /\ \A x \in Positions(call_batch.mask) :
              call_batch.mask[x[1]][x[2]] < NumChannels(call_result)
        /\ returned.status = "returned"

====
